---------------------------- MODULE Spec2Model ----------------------------
(***************************************************************************)
(* A model of the pallet calculation engine of                            *)
(* src/pallet_calc/calculator.py.                                          *)
(*                                                                         *)
(* The engine is a pure function of its input, so the state is a pending   *)
(* call (its arguments) and, after the call, its outcome: the value        *)
(* returned or the exception raised.                                       *)
(*                                                                         *)
(* Numbers.  Python ints are modelled as integers.  Python floats are      *)
(* modelled as binary floating-point numbers with a mantissa of Prec bits  *)
(* (round to nearest, ties to even, no exponent limits): a float is held   *)
(* as an integer count of 1/Scale centimetres, Scale = 2^FracBits, and     *)
(* every float operation rounds its exact result to Prec significant       *)
(* bits.  For whole-centimetre inputs below 2^Prec cm the operations are   *)
(* exact, as they are in double precision; for fractional inputs they      *)
(* round, as they do in double precision.                                  *)
(*                                                                         *)
(* The two volume totals of CalculationResult are not modelled: no         *)
(* property below reads them and they feed back into nothing.              *)
(***************************************************************************)
EXTENDS Integers, Sequences, FiniteSets, TLC

VARIABLES
    pc,                     \* "call" before the function runs, "done" after
    call,                   \* which function of the engine is being called
    data,                   \* CalculationInput handed to calculate_palletization
    layers,                 \* List[Layer] handed to _pack_layers
    goods_height_limit_cm,  \* the limit handed to _pack_layers
    product,                \* ProductSpec handed to _best_orientation
    pallet,                 \* PalletSpec handed to _best_orientation
    result                  \* the outcome of the call

vars == <<pc, call, data, layers, goods_height_limit_cm, product, pallet, result>>

---------------------------------------------------------------------------
(* Bounds of the model *)

\* Mantissa width of the modelled floats (53 in the program).
Prec == 9
\* Resolution of the inputs: lengths are multiples of 2^-FracBits cm.
FracBits == 3
\* Longest product list handed to calculate_palletization.
MaxProducts == 3
\* Longest layer list handed to _pack_layers directly.
MaxLayers == 4

---------------------------------------------------------------------------
(* Arithmetic *)

RECURSIVE Pow2(_)
Pow2(n) == IF n <= 0 THEN 1 ELSE 2 * Pow2(n - 1)

Scale == Pow2(FracBits)

\* A length of num/den centimetres (den a power of two dividing Scale).
Cm(num, den) == (num * Scale) \div den

Abs(n) == IF n < 0 THEN -n ELSE n

\* Number of bits of a positive integer.
RECURSIVE BitLen(_)
BitLen(n) == IF n <= 0 THEN 0 ELSE 1 + BitLen(n \div 2)

\* Round the positive rational n/d to the nearest integer, ties to even.
RoundHalfEven(n, d) ==
    IF 2 * (n % d) < d THEN n \div d
    ELSE IF 2 * (n % d) > d THEN (n \div d) + 1
    ELSE IF (n \div d) % 2 = 0 THEN n \div d ELSE (n \div d) + 1

\* The positive integer a rounded to its leading BitLen(a) - s bits.
RoundBits(a, s) == IF s <= 0 THEN a ELSE RoundHalfEven(a, Pow2(s)) * Pow2(s)

\* The float nearest to the exact value n (in 1/Scale cm, or a plain count):
\* n rounded to Prec significant bits.
RoundFloat(n) ==
    IF n = 0 THEN 0
    ELSE IF n < 0 THEN -RoundBits(-n, BitLen(-n) - Prec)
    ELSE RoundBits(n, BitLen(n) - Prec)

\* float + float, float - float, int * float
FAdd(a, b) == RoundFloat(a + b)
FSub(a, b) == RoundFloat(a - b)
FMul(k, a) == RoundFloat(k * a)

\* For 0 < a < b: the least k >= 1 with a * 2^k >= b.
RECURSIVE ShiftUp(_, _, _)
ShiftUp(a, b, k) == IF a * Pow2(k) >= b THEN k ELSE ShiftUp(a, b, k + 1)

\* a/b rounded to a mantissa of Prec bits at the binary exponent -t.
QuotAt(a, b, t) ==
    IF t >= 0 THEN <<RoundHalfEven(a * Pow2(t), b), t>>
    ELSE <<RoundHalfEven(a, b * Pow2(-t)), t>>

\* The float nearest to a/b for a > 0, b > 0, as <<M, t>>: the value M / 2^t
\* (t < 0: M * 2^-t), M the rounded Prec-bit mantissa.
QuotFloat(a, b) ==
    QuotAt(a, b, IF a >= b THEN Prec - BitLen(a \div b)
                 ELSE Prec - 1 + ShiftUp(a, b, 1))

\* math.floor and math.ceil of the float q = <<M, t>>
FloorOf(q) ==
    IF q[2] >= 0 THEN q[1] \div Pow2(q[2]) ELSE q[1] * Pow2(-q[2])
CeilOf(q) ==
    IF q[2] >= 0 THEN (q[1] + Pow2(q[2]) - 1) \div Pow2(q[2])
    ELSE q[1] * Pow2(-q[2])

\* math.floor(a / b) and math.ceil(a / b), b # 0: the true division is a
\* float division, rounded before the floor or ceiling is taken.
FloorDiv(a, b) ==
    IF a = 0 THEN 0
    ELSE IF (a > 0) = (b > 0) THEN FloorOf(QuotFloat(Abs(a), Abs(b)))
    ELSE -CeilOf(QuotFloat(Abs(a), Abs(b)))

CeilDiv(a, b) ==
    IF a = 0 THEN 0
    ELSE IF (a > 0) = (b > 0) THEN CeilOf(QuotFloat(Abs(a), Abs(b)))
    ELSE -FloorOf(QuotFloat(Abs(a), Abs(b)))

\* Python's int // int and int % int for a positive divisor.
IntFloorDiv(a, b) == IF a >= 0 THEN a \div b ELSE -((-a + b - 1) \div b)
IntMod(a, b) == a - b * IntFloorDiv(a, b)

Min(a, b) == IF a <= b THEN a ELSE b

---------------------------------------------------------------------------
(* Outcomes: a value returned, or an exception raised *)

Ok(v) == [kind |-> "ok", value |-> v]
Raise(e, m) == [kind |-> "raise", error |-> e, message |-> m]

\* Raw (untyped) input values: a number, or a text that is no number.
Num(n) == [num |-> n]
Text(s) == [text |-> s]
IsNum(v) == "num" \in DOMAIN v

---------------------------------------------------------------------------
(* Input Normalizer *)

\* float(dims[0]), float(dims[1]), float(dims[2]): the first index that fails
\* decides the exception.  A missing element is an IndexError, which the
\* except clause of _load_products does not catch.
RECURSIVE DimsFailure(_, _)
DimsFailure(dims, k) ==
    IF k > 3 THEN "none"
    ELSE IF k > Len(dims) THEN "IndexError"
    ELSE IF ~IsNum(dims[k]) THEN "ValueError"
    ELSE DimsFailure(dims, k + 1)

\* The ProductSpec built from a raw product whose fields are all numbers.
ProductSpec(raw) ==
    [name |-> raw["name"],
     order_quantity_pcs |-> raw["order_quantity_pcs"].num,
     pcs_per_carton |-> raw["pcs_per_carton"].num,
     carton_length_cm |-> RoundFloat(raw["carton_dimensions_cm"][1].num),
     carton_width_cm |-> RoundFloat(raw["carton_dimensions_cm"][2].num),
     carton_height_cm |-> RoundFloat(raw["carton_dimensions_cm"][3].num)]

\* One iteration of the loop of _load_products.
LoadProduct(raw) ==
    IF "carton_dimensions_cm" \notin DOMAIN raw
    THEN Raise("ValueError", "Invalid product specification")
    ELSE IF DimsFailure(raw["carton_dimensions_cm"], 1) = "IndexError"
    THEN Raise("IndexError", "list index out of range")
    ELSE IF \/ DimsFailure(raw["carton_dimensions_cm"], 1) = "ValueError"
            \/ "name" \notin DOMAIN raw
            \/ "order_quantity_pcs" \notin DOMAIN raw
            \/ ~IsNum(raw["order_quantity_pcs"])
            \/ "pcs_per_carton" \notin DOMAIN raw
            \/ ~IsNum(raw["pcs_per_carton"])
    THEN Raise("ValueError", "Invalid product specification")
    ELSE Ok(ProductSpec(raw))

\* The loop of _load_products from raw product i on, then the check for an
\* empty list.  p is the outcome of loading raw product i.
RECURSIVE LoadProductsFrom(_, _, _)
LoadNext(raw_products, i, products, p) ==
    IF p.kind = "raise" THEN p
    ELSE LoadProductsFrom(raw_products, i + 1, Append(products, p.value))

LoadProductsFrom(raw_products, i, products) ==
    IF i > Len(raw_products)
    THEN IF products = <<>>
         THEN Raise("ValueError", "At least one product must be provided.")
         ELSE Ok(products)
    ELSE LoadNext(raw_products, i, products, LoadProduct(raw_products[i]))

LoadProducts(raw_products) == LoadProductsFrom(raw_products, 1, <<>>)

\* The checks of _load_pallet on the four converted values.
PalletSpec(length_cm, width_cm, height_cm, base_height_cm) ==
    IF \E v \in {length_cm, width_cm, height_cm, base_height_cm} : v <= 0
    THEN Raise("ValueError", "Pallet dimensions must be positive numbers.")
    ELSE IF base_height_cm >= height_cm
    THEN Raise("ValueError",
               "Pallet base height must be lower than total pallet height.")
    ELSE Ok([length_cm |-> length_cm, width_cm |-> width_cm,
             height_cm |-> height_cm, base_height_cm |-> base_height_cm])

LoadPallet(raw_pallet) ==
    IF \/ {"length_cm", "width_cm", "height_cm"} \ DOMAIN raw_pallet # {}
       \/ \E k \in DOMAIN raw_pallet : ~IsNum(raw_pallet[k])
    THEN Raise("ValueError", "Invalid pallet specification.")
    ELSE PalletSpec(RoundFloat(raw_pallet["length_cm"].num),
                    RoundFloat(raw_pallet["width_cm"].num),
                    RoundFloat(raw_pallet["height_cm"].num),
                    IF "base_height_cm" \in DOMAIN raw_pallet
                    THEN RoundFloat(raw_pallet["base_height_cm"].num)
                    ELSE Cm(15, 1))

\* str.upper() on the container codes the model uses.
Upper(s) ==
    CASE s = "20cy" -> "20CY"
      [] s = "40cy" -> "40CY"
      [] s = "40hq" -> "40HQ"
      [] OTHER -> s

ContainerHeightsCm ==
    [c \in {"20CY", "40CY", "40HQ"} |->
        IF c = "40HQ" THEN Cm(269, 1) ELSE Cm(239, 1)]

ResolveContainerHeight(container_height) ==
    IF Upper(container_height) \in DOMAIN ContainerHeightsCm
    THEN Ok(ContainerHeightsCm[Upper(container_height)])
    ELSE Raise("ValueError", "Unsupported container height")

\* The check of PalletSpec.goods_height_limit on the computed limit.
CheckedLimit(limit) ==
    IF limit <= 0
    THEN Raise("ValueError",
               "Pallet/base height exceeds available container height.")
    ELSE Ok(limit)

GoodsHeightLimit(pallet_spec, container_height_cm) ==
    CheckedLimit(FSub(Min(pallet_spec.height_cm, container_height_cm),
                      pallet_spec.base_height_cm))

---------------------------------------------------------------------------
(* Orientation Selector *)

\* Python's order on tuples of numbers of the same length.
RECURSIVE TupleLess(_, _)
TupleLess(a, b) ==
    IF a = <<>> THEN FALSE
    ELSE IF Head(a) < Head(b) THEN TRUE
    ELSE IF Head(a) > Head(b) THEN FALSE
    ELSE TupleLess(Tail(a), Tail(b))

\* Mutant of InsertReverse: an unstable sort, position i put before the
\* earlier positions with an equal key.
RECURSIVE InsertReverseUnstable(_, _, _)
InsertReverseUnstable(i, order, keys) ==
    IF order = <<>> THEN <<i>>
    ELSE IF ~TupleLess(keys[i], keys[Head(order)]) THEN <<i>> \o order
    ELSE <<Head(order)>> \o InsertReverseUnstable(i, Tail(order), keys)

\* Position i put into the positions already ordered: before the first whose
\* key is smaller, so behind every earlier position with an equal key.
RECURSIVE InsertReverse(_, _, _)
InsertReverse(i, order, keys) ==
    IF order = <<>> THEN <<i>>
    ELSE IF TupleLess(keys[Head(order)], keys[i]) THEN <<i>> \o order
    ELSE <<Head(order)>> \o InsertReverse(i, Tail(order), keys)

RECURSIVE SortOrder(_, _, _)
SortOrder(keys, i, order) ==
    IF i > Len(keys) THEN order
    ELSE SortOrder(keys, i + 1, InsertReverse(i, order, keys))

Permute(seq, order) == [k \in DOMAIN seq |-> seq[order[k]]]

\* sorted(seq, key=..., reverse=True) and seq.sort(key=..., reverse=True),
\* keys[k] the key of seq[k]: descending by key, elements with equal keys
\* staying in their original order.
SortedReverse(seq, keys) == Permute(seq, SortOrder(keys, 1, <<>>))

OrientationPlan(count_length, count_width, length, width) ==
    [cartons_per_layer |-> count_length * count_width,
     cartons_along_length |-> count_length,
     cartons_along_width |-> count_width,
     carton_length_cm |-> length,
     carton_width_cm |-> width]

\* One candidate layout: the body of the loop of _best_orientation.
Layout(length, width, pallet_spec) ==
    OrientationPlan(FloorDiv(pallet_spec.length_cm, length),
                    FloorDiv(pallet_spec.width_cm, width),
                    length, width)

\* Mutant of OrientationKey: the two tie-breakers are left out.
OrientationKeyPerLayerOnly(plan) == <<plan.cartons_per_layer>>

\* The sort key of _best_orientation.
OrientationKey(plan) ==
    <<plan.cartons_per_layer, plan.cartons_along_length, plan.cartons_along_width>>

IsPositive(option) == option.cartons_per_layer > 0

\* The end of _best_orientation: the options sorted, the first returned.
FirstOption(options) ==
    IF options = <<>>
    THEN Raise("ValueError",
               "cannot fit on the pallet footprint with either orientation")
    ELSE Ok(SortedReverse(options,
                          [k \in DOMAIN options |-> OrientationKey(options[k])])[1])

BestOrientation(product_spec, pallet_spec) ==
    IF product_spec.carton_length_cm = 0 \/ product_spec.carton_width_cm = 0
    THEN Raise("ZeroDivisionError", "float division by zero")
    ELSE FirstOption(SelectSeq(
             <<Layout(product_spec.carton_length_cm,
                      product_spec.carton_width_cm, pallet_spec),
               Layout(product_spec.carton_width_cm,
                      product_spec.carton_length_cm, pallet_spec)>>,
             IsPositive))

---------------------------------------------------------------------------
(* Remainder handling *)

Layer(product_name, cartons, layer_height_cm) ==
    [product_name |-> product_name, cartons |-> cartons,
     layer_height_cm |-> layer_height_cm]

Repeat(x, n) == [i \in 1..n |-> x]

\* Mutant of BuildLayers: the partial layer is left out.
BuildLayersFullOnly(plan) ==
    IF plan.remainder_cartons <= 0 THEN <<>>
    ELSE Repeat(Layer(plan.product.name, plan.orientation.cartons_per_layer,
                      plan.product.carton_height_cm),
                IntFloorDiv(plan.remainder_cartons,
                            plan.orientation.cartons_per_layer))

BuildLayers(plan) ==
    IF plan.remainder_cartons <= 0 THEN <<>>
    ELSE Repeat(Layer(plan.product.name, plan.orientation.cartons_per_layer,
                      plan.product.carton_height_cm),
                IntFloorDiv(plan.remainder_cartons,
                            plan.orientation.cartons_per_layer))
         \o (IF IntMod(plan.remainder_cartons,
                       plan.orientation.cartons_per_layer) # 0
             THEN <<Layer(plan.product.name,
                          IntMod(plan.remainder_cartons,
                                 plan.orientation.cartons_per_layer),
                          plan.product.carton_height_cm)>>
             ELSE <<>>)

\* The sort key of _pack_layers.
LayerKey(layer) == <<layer.layer_height_cm>>

\* Mutant of PackFrom: the open pallet is tested without the layer to add.
RECURSIVE PackFromOverfill(_, _, _, _, _, _)
PackFromOverfill(ordered, limit, i, pallets, current, current_height) ==
    IF i > Len(ordered)
    THEN Ok(IF current # <<>> THEN Append(pallets, current) ELSE pallets)
    ELSE IF ordered[i].layer_height_cm > limit
    THEN Raise("ValueError", "Layer height exceeds available stacking limit.")
    ELSE IF current_height <= limit
    THEN PackFromOverfill(ordered, limit, i + 1, pallets,
                          Append(current, ordered[i]),
                          FAdd(current_height, ordered[i].layer_height_cm))
    ELSE PackFromOverfill(ordered, limit, i + 1, Append(pallets, current),
                          <<ordered[i]>>, ordered[i].layer_height_cm)

\* Mutant of PackFrom: a layer that fills the pallet exactly is refused.
RECURSIVE PackFromStrict(_, _, _, _, _, _)
PackFromStrict(ordered, limit, i, pallets, current, current_height) ==
    IF i > Len(ordered)
    THEN Ok(IF current # <<>> THEN Append(pallets, current) ELSE pallets)
    ELSE IF ordered[i].layer_height_cm > limit
    THEN Raise("ValueError", "Layer height exceeds available stacking limit.")
    ELSE IF current = <<>>
            \/ FAdd(current_height, ordered[i].layer_height_cm) < limit
    THEN PackFromStrict(ordered, limit, i + 1, pallets,
                        Append(current, ordered[i]),
                        FAdd(current_height, ordered[i].layer_height_cm))
    ELSE PackFromStrict(ordered, limit, i + 1, Append(pallets, current),
                        <<ordered[i]>>, ordered[i].layer_height_cm)

\* The loop of _pack_layers from position i of the sorted list on.
RECURSIVE PackFrom(_, _, _, _, _, _)
PackFrom(ordered, limit, i, pallets, current, current_height) ==
    IF i > Len(ordered)
    THEN Ok(IF current # <<>> THEN Append(pallets, current) ELSE pallets)
    ELSE IF ordered[i].layer_height_cm > limit
    THEN Raise("ValueError", "Layer height exceeds available stacking limit.")
    ELSE IF FAdd(current_height, ordered[i].layer_height_cm) <= limit
    THEN PackFrom(ordered, limit, i + 1, pallets,
                  Append(current, ordered[i]),
                  FAdd(current_height, ordered[i].layer_height_cm))
    ELSE PackFrom(ordered, limit, i + 1, Append(pallets, current),
                  <<ordered[i]>>, ordered[i].layer_height_cm)

PackLayers(layer_list, limit) ==
    IF layer_list = <<>> THEN Ok(<<>>)
    ELSE PackFrom(SortedReverse(layer_list,
                                [k \in DOMAIN layer_list |-> LayerKey(layer_list[k])]),
                  limit, 1, <<>>, <<>>, 0)

---------------------------------------------------------------------------
(* Product Planner and Result Aggregator *)

PalletDetail(label, count, cartons_by_product, goods_height_cm, total_height_cm) ==
    [label |-> label, count |-> count, cartons_by_product |-> cartons_by_product,
     goods_height_cm |-> goods_height_cm, total_height_cm |-> total_height_cm]

\* ProductSpec.cartons_required, for pcs_per_carton # 0
CartonsRequired(product_spec) ==
    CeilDiv(product_spec.order_quantity_pcs, product_spec.pcs_per_carton)

\* ProductPlan.goods_height_cm
PlanGoodsHeight(plan) ==
    FMul(plan.layers_per_pallet, plan.product.carton_height_cm)

\* The PalletDetail appended for the full pallets of a plan.
FullPalletDetail(plan, pallet_spec) ==
    PalletDetail(plan.product.name \o " full pallet",
                 plan.full_pallets,
                 [n \in {plan.product.name} |-> plan.cartons_per_pallet],
                 PlanGoodsHeight(plan),
                 FAdd(PlanGoodsHeight(plan), pallet_spec.base_height_cm))

\* Mutant of HasRemainder: a remainder of zero gets a pallet too.
HasRemainderOrNone(remainder) == remainder >= 0

\* Whether the dedicated mode emits a remainder pallet: `elif remainder:`
HasRemainder(remainder) == remainder # 0

\* goods_height_cm of the remainder pallet of a plan when mixing is off.
RemainderGoodsHeight(plan) ==
    FMul(CeilDiv(plan.remainder_cartons, plan.orientation.cartons_per_layer),
         plan.product.carton_height_cm)

\* The PalletDetail appended for the remainder of a plan when mixing is off.
RemainderPalletDetail(plan, pallet_spec) ==
    PalletDetail(plan.product.name \o " remainder pallet",
                 1,
                 [n \in {plan.product.name} |-> plan.remainder_cartons],
                 RemainderGoodsHeight(plan),
                 FAdd(RemainderGoodsHeight(plan), pallet_spec.base_height_cm))

ProductPlan(p, orientation, layers_per_pallet, cartons_per_pallet, full_pallets, remainder) ==
    [product |-> p,
     orientation |-> orientation,
     layers_per_pallet |-> layers_per_pallet,
     cartons_per_pallet |-> cartons_per_pallet,
     full_pallets |-> full_pallets,
     remainder_cartons |-> remainder]

\* The pallets list after the plan of one product: its full pallets, if any,
\* and with mixing off its remainder pallet, if any.
PalletsAfter(plan, pallet_spec, allow_mixed, pallets) ==
    (IF plan.full_pallets # 0
     THEN Append(pallets, FullPalletDetail(plan, pallet_spec))
     ELSE pallets)
    \o (IF ~allow_mixed /\ HasRemainder(plan.remainder_cartons)
        THEN <<RemainderPalletDetail(plan, pallet_spec)>>
        ELSE <<>>)

\* The accumulators of the loop over the products after one more plan.
Accumulate(plan, cartons_required, pallet_spec, allow_mixed, acc) ==
    [product_plans |-> Append(acc.product_plans, plan),
     total_cartons |-> acc.total_cartons + cartons_required,
     remainder_layers |->
         IF allow_mixed THEN acc.remainder_layers \o BuildLayers(plan)
         ELSE acc.remainder_layers,
     pallets |-> PalletsAfter(plan, pallet_spec, allow_mixed, acc.pallets)]

\* Mutant of PlanCartons: the number of full pallets is rounded up.
PlanCartonsRoundedUp(p, orientation, layers_per_pallet, cartons_per_pallet, cartons_required, pallet_spec, allow_mixed, acc) ==
    Ok(Accumulate(ProductPlan(p, orientation, layers_per_pallet, cartons_per_pallet,
                              -IntFloorDiv(-cartons_required, cartons_per_pallet),
                              IntMod(cartons_required, cartons_per_pallet)),
                  cartons_required, pallet_spec, allow_mixed, acc))

\* The loop body from cartons_required on.
PlanCartons(p, orientation, layers_per_pallet, cartons_per_pallet, cartons_required, pallet_spec, allow_mixed, acc) ==
    Ok(Accumulate(ProductPlan(p, orientation, layers_per_pallet, cartons_per_pallet,
                              IntFloorDiv(cartons_required, cartons_per_pallet),
                              IntMod(cartons_required, cartons_per_pallet)),
                  cartons_required, pallet_spec, allow_mixed, acc))

\* The loop body from the check of layers_per_pallet on.
PlanLayers(p, orientation, layers_per_pallet, pallet_spec, allow_mixed, acc) ==
    IF layers_per_pallet <= 0
    THEN Raise("ValueError", "exceeds the allowable stacking height")
    ELSE IF orientation.cartons_per_layer * layers_per_pallet <= 0
    THEN Raise("ValueError",
               "cannot be placed on the pallet with the given constraints")
    ELSE IF p.pcs_per_carton = 0
    THEN Raise("ZeroDivisionError", "division by zero")
    ELSE PlanCartons(p, orientation, layers_per_pallet,
                     orientation.cartons_per_layer * layers_per_pallet,
                     CartonsRequired(p), pallet_spec, allow_mixed, acc)

\* Mutant of PlanOriented: the layers per pallet are rounded up.
PlanOrientedRoundedUp(p, o, pallet_spec, goods_limit_cm, allow_mixed, acc) ==
    IF o.kind = "raise" THEN o
    ELSE IF p.carton_height_cm = 0
    THEN Raise("ZeroDivisionError", "float division by zero")
    ELSE PlanLayers(p, o.value, CeilDiv(goods_limit_cm, p.carton_height_cm),
                    pallet_spec, allow_mixed, acc)

\* The loop body after _best_orientation, o its outcome.
PlanOriented(p, o, pallet_spec, goods_limit_cm, allow_mixed, acc) ==
    IF o.kind = "raise" THEN o
    ELSE IF p.carton_height_cm = 0
    THEN Raise("ZeroDivisionError", "float division by zero")
    ELSE PlanLayers(p, o.value, FloorDiv(goods_limit_cm, p.carton_height_cm),
                    pallet_spec, allow_mixed, acc)

\* The body of the loop over the products: the accumulators after product p,
\* or the exception that ends the calculation.
PlanProduct(p, pallet_spec, goods_limit_cm, allow_mixed, acc) ==
    PlanOriented(p, BestOrientation(p, pallet_spec), pallet_spec,
                 goods_limit_cm, allow_mixed, acc)

\* The loop over the products from product i on; r is the outcome of the
\* body for product i.
RECURSIVE PlanProducts(_, _, _, _, _, _)
PlanNext(products, pallet_spec, goods_limit_cm, allow_mixed, i, r) ==
    IF r.kind = "raise" THEN r
    ELSE PlanProducts(products, pallet_spec, goods_limit_cm, allow_mixed,
                      i + 1, r.value)

PlanProducts(products, pallet_spec, goods_limit_cm, allow_mixed, i, acc) ==
    IF i > Len(products) THEN Ok(acc)
    ELSE PlanNext(products, pallet_spec, goods_limit_cm, allow_mixed, i,
                  PlanProduct(products[i], pallet_spec, goods_limit_cm,
                              allow_mixed, acc))

\* cartons_by_product of one mixed pallet: the cartons of its layers, by name.
RECURSIVE CartonsOf(_, _)
CartonsOf(layer_stack, name) ==
    IF layer_stack = <<>> THEN 0
    ELSE (IF Head(layer_stack).product_name = name
          THEN Head(layer_stack).cartons ELSE 0)
         + CartonsOf(Tail(layer_stack), name)

\* goods_height_cm of one mixed pallet: 0.0, then += every layer's height.
RECURSIVE StackHeight(_, _)
StackHeight(layer_stack, height) ==
    IF layer_stack = <<>> THEN height
    ELSE StackHeight(Tail(layer_stack),
                     FAdd(height, Head(layer_stack).layer_height_cm))

\* The PalletDetail appended for the index-th grouping of the packer.
MixedPalletDetail(layer_stack, index, pallet_spec) ==
    PalletDetail("Mixed remainder pallet #" \o ToString(index),
                 1,
                 [n \in {layer_stack[k].product_name : k \in DOMAIN layer_stack}
                     |-> CartonsOf(layer_stack, n)],
                 StackHeight(layer_stack, 0),
                 FAdd(StackHeight(layer_stack, 0), pallet_spec.base_height_cm))

MixedPalletDetails(packed, pallet_spec) ==
    [k \in DOMAIN packed |-> MixedPalletDetail(packed[k], k, pallet_spec)]

\* sum(detail.count for detail in pallets)
RECURSIVE TotalCount(_)
TotalCount(details) ==
    IF details = <<>> THEN 0 ELSE Head(details).count + TotalCount(Tail(details))

CalculationResult(product_plans, pallets, total_cartons) ==
    [product_plans |-> product_plans,
     pallets |-> pallets,
     total_cartons |-> total_cartons,
     total_pallets |-> TotalCount(pallets)]

\* The end of calculate_palletization; packed is the outcome of the packer.
Aggregate(acc, packed, pallet_spec) ==
    IF packed.kind = "raise" THEN packed
    ELSE Ok(CalculationResult(
                acc.product_plans,
                acc.pallets \o MixedPalletDetails(packed.value, pallet_spec),
                acc.total_cartons))

\* calculate_palletization after the loop; planned is the loop's outcome.
PackRemainders(planned, pallet_spec, goods_limit_cm, allow_mixed) ==
    IF planned.kind = "raise" THEN planned
    ELSE Aggregate(planned.value,
                   IF allow_mixed /\ planned.value.remainder_layers # <<>>
                   THEN PackLayers(planned.value.remainder_layers, goods_limit_cm)
                   ELSE Ok(<<>>),
                   pallet_spec)

\* calculate_palletization from the loaded values on.
Palletize(products, pallet_spec, goods_limit_cm, allow_mixed) ==
    PackRemainders(
        PlanProducts(products, pallet_spec, goods_limit_cm, allow_mixed, 1,
                     [product_plans |-> <<>>, remainder_layers |-> <<>>,
                      pallets |-> <<>>, total_cartons |-> 0]),
        pallet_spec, goods_limit_cm, allow_mixed)

\* calculate_palletization once the four loading steps have their outcomes:
\* the first of them that raised ends the calculation.
Loaded(products, pallet_spec, container_height_cm, goods_limit_cm, allow_mixed) ==
    IF products.kind = "raise" THEN products
    ELSE IF pallet_spec.kind = "raise" THEN pallet_spec
    ELSE IF container_height_cm.kind = "raise" THEN container_height_cm
    ELSE IF goods_limit_cm.kind = "raise" THEN goods_limit_cm
    ELSE Palletize(products.value, pallet_spec.value, goods_limit_cm.value,
                   allow_mixed)

\* The limit from the outcomes of _load_pallet and _resolve_container_height.
LimitOf(pallet_spec, container_height_cm) ==
    IF pallet_spec.kind = "raise" THEN pallet_spec
    ELSE IF container_height_cm.kind = "raise" THEN container_height_cm
    ELSE GoodsHeightLimit(pallet_spec.value, container_height_cm.value)

CalculatePalletization(input) ==
    Loaded(LoadProducts(input.products),
           LoadPallet(input.pallet),
           ResolveContainerHeight(input.container_height),
           LimitOf(LoadPallet(input.pallet),
                   ResolveContainerHeight(input.container_height)),
           input.allow_mixed_remainders)

---------------------------------------------------------------------------
(* Inputs *)

None == [kind |-> "none"]
Pending == [kind |-> "pending"]

RawProduct(name, order_quantity_pcs, pcs_per_carton, dims) ==
    [name |-> name,
     order_quantity_pcs |-> order_quantity_pcs,
     pcs_per_carton |-> pcs_per_carton,
     carton_dimensions_cm |-> dims]

Dims(l, w, h) == <<Num(l), Num(w), Num(h)>>

\* The two products of the example of tests/test_calculator.py.
ExampleProducts ==
    <<RawProduct("999-00031", Num(800), Num(10), Dims(Cm(56, 1), Cm(26, 1), Cm(20, 1))),
      RawProduct("999-00166", Num(580), Num(10), Dims(Cm(97, 1), Cm(26, 1), Cm(20, 1)))>>

ExamplePallet ==
    [length_cm |-> Num(Cm(120, 1)), width_cm |-> Num(Cm(105, 1)),
     height_cm |-> Num(Cm(195, 1))]

ExampleInput(allow_mixed) ==
    [products |-> ExampleProducts, pallet |-> ExamplePallet,
     allow_mixed_remainders |-> allow_mixed, container_height |-> "20CY"]

\* Products for the small pallets (goods height limits of 10 and 9 cm):
\* remainders of one and of two layers, a carton that must be turned, an
\* order that fills its pallet exactly, a carton too tall for the limit, and
\* orders whose quantity, pieces per carton or dimensions are negative or zero.
SmallProducts ==
    {RawProduct("A", Num(30), Num(10), Dims(Cm(6, 1), Cm(5, 1), Cm(6, 1))),
     RawProduct("B", Num(65), Num(10), Dims(Cm(6, 1), Cm(5, 1), Cm(5, 1))),
     RawProduct("A", Num(90), Num(10), Dims(Cm(5, 1), Cm(6, 1), Cm(4, 1))),
     RawProduct("B", Num(80), Num(10), Dims(Cm(6, 1), Cm(5, 1), Cm(5, 1))),
     RawProduct("B", Num(110), Num(10), Dims(Cm(6, 1), Cm(5, 1), Cm(257, 8))),
     RawProduct("A", Num(-15), Num(10), Dims(Cm(6, 1), Cm(5, 1), Cm(5, 1))),
     RawProduct("B", Num(10), Num(0), Dims(Cm(6, 1), Cm(5, 1), Cm(5, 1))),
     RawProduct("A", Num(10), Num(10), Dims(Cm(-6, 1), Cm(-5, 1), Cm(0, 1)))}

\* Malformed products: a text for a number, a missing field, a short list.
MalformedProducts ==
    {RawProduct("A", Text("abc"), Num(10), Dims(Cm(6, 1), Cm(5, 1), Cm(5, 1))),
     [name |-> "B", order_quantity_pcs |-> Num(10),
      carton_dimensions_cm |-> Dims(Cm(6, 1), Cm(5, 1), Cm(5, 1))],
     RawProduct("A", Num(10), Num(10), <<Num(Cm(6, 1)), Num(Cm(5, 1))>>)}

\* Products for the tall pallets (goods height limits of 180 and 96.25 cm):
\* the example's, one of them with a negative quantity, cartons of whole and
\* fractional heights, and a carton of 96.5 cm, the least height above the
\* limit of 96.25 cm.
TallProducts ==
    {ExampleProducts[1], ExampleProducts[2],
     RawProduct("999-00031", Num(-700), Num(10), Dims(Cm(56, 1), Cm(26, 1), Cm(20, 1))),
     RawProduct("A", Num(30), Num(10), Dims(Cm(6, 1), Cm(5, 1), Cm(6, 1))),
     RawProduct("B", Num(65), Num(10), Dims(Cm(6, 1), Cm(5, 1), Cm(5, 1))),
     RawProduct("B", Num(110), Num(10), Dims(Cm(6, 1), Cm(5, 1), Cm(257, 8))),
     RawProduct("A", Num(30), Num(10), Dims(Cm(6, 1), Cm(5, 1), Cm(193, 2)))}

SeqsUpTo(S, n) == UNION {[1..k -> S] : k \in 0..n}

SmallPallet(height_cm, base_height_cm) ==
    [length_cm |-> Num(Cm(12, 1)), width_cm |-> Num(Cm(10, 1)),
     height_cm |-> Num(height_cm), base_height_cm |-> Num(base_height_cm)]

\* Pallet and container pairs with goods height limits of 10 cm (the pallet
\* height decides) and 9 cm (the container height decides).
SmallSettings ==
    {<<SmallPallet(Cm(25, 1), Cm(15, 1)), "20cy">>,
     <<SmallPallet(Cm(300, 1), Cm(230, 1)), "40CY">>}

\* Pallet and container pairs with goods height limits of 180 and 96.25 cm.
TallSettings ==
    {<<ExamplePallet, "20CY">>,
     <<SmallPallet(Cm(445, 4), Cm(15, 1)), "40hq">>}

\* Pallet and container pairs the engine rejects.
InvalidSettings ==
    {<<SmallPallet(Cm(25, 1), Cm(15, 1)), "45HQ">>,
     <<[SmallPallet(Cm(25, 1), Cm(15, 1)) EXCEPT !.length_cm = Num(0)], "20CY">>,
     <<[SmallPallet(Cm(25, 1), Cm(15, 1)) EXCEPT !.height_cm = Text("abc")], "20CY">>,
     <<[width_cm |-> Num(Cm(10, 1)), height_cm |-> Num(Cm(25, 1))], "20CY">>,
     <<SmallPallet(Cm(15, 1), Cm(15, 1)), "20CY">>,
     <<SmallPallet(Cm(300, 1), Cm(240, 1)), "20CY">>}

CalculationInput(products, setting, allow_mixed) ==
    [products |-> products, pallet |-> setting[1],
     allow_mixed_remainders |-> allow_mixed, container_height |-> setting[2]]

\* The inputs of the calculation, by kind: the products to draw from, the
\* pallet and container pairs, and the largest number of products.  Init
\* draws every sequence of up to that many products with every pair, with
\* and without mixing.
InputKinds ==
    {<<SmallProducts \cup MalformedProducts, SmallSettings, MaxProducts>>,
     <<TallProducts, TallSettings, MaxProducts>>,
     <<SmallProducts \cup MalformedProducts, InvalidSettings, 1>>}

\* Layers handed to the packer directly.
LayerKinds == {<<"A", 4>>, <<"B", 3>>}
LayerHeights == {Cm(4, 1), Cm(5, 1), Cm(6, 1), Cm(257, 8)}
Layers == {Layer(k[1], k[2], h) : k \in LayerKinds, h \in LayerHeights}
Limits == {Cm(10, 1), Cm(385, 4)}

\* Products and pallets handed to the orientation selector directly.
CartonSides ==
    {Cm(-5, 1), Cm(0, 1), Cm(5, 2), Cm(3, 1), Cm(4, 1), Cm(5, 1), Cm(6, 1),
     Cm(7, 1), Cm(8, 1), Cm(11, 1), Cm(26, 1), Cm(56, 1), Cm(97, 1)}
ProductSpecs ==
    {[name |-> "A", order_quantity_pcs |-> 10, pcs_per_carton |-> 10,
      carton_length_cm |-> l, carton_width_cm |-> w, carton_height_cm |-> Cm(5, 1)] :
        l \in CartonSides, w \in CartonSides}
PalletSpecs ==
    {[length_cm |-> Cm(12, 1), width_cm |-> Cm(10, 1),
      height_cm |-> Cm(25, 1), base_height_cm |-> Cm(15, 1)],
     [length_cm |-> Cm(120, 1), width_cm |-> Cm(105, 1),
      height_cm |-> Cm(195, 1), base_height_cm |-> Cm(15, 1)]}

---------------------------------------------------------------------------
(* The engine called through calculate_palletization *)

Init ==
    /\ pc = "call"
    /\ call = "calculate_palletization"
    /\ \E kind \in InputKinds :
           \E ps \in SeqsUpTo(kind[1], kind[3]), st \in kind[2], m \in BOOLEAN :
               data = CalculationInput(ps, st, m)
    /\ layers = None
    /\ goods_height_limit_cm = None
    /\ product = None
    /\ pallet = None
    /\ result = Pending

Calculate ==
    /\ pc = "call"
    /\ call = "calculate_palletization"
    /\ result' = CalculatePalletization(data)
    /\ pc' = "done"
    /\ UNCHANGED <<call, data, layers, goods_height_limit_cm, product, pallet>>

Next == Calculate

Spec == Init /\ [][Next]_vars

(* The Remainder Packer called on its own *)

PackInit ==
    /\ pc = "call"
    /\ call = "_pack_layers"
    /\ data = None
    /\ layers \in SeqsUpTo(Layers, MaxLayers)
    /\ goods_height_limit_cm \in Limits
    /\ product = None
    /\ pallet = None
    /\ result = Pending

Pack ==
    /\ pc = "call"
    /\ call = "_pack_layers"
    /\ result' = PackLayers(layers, goods_height_limit_cm)
    /\ pc' = "done"
    /\ UNCHANGED <<call, data, layers, goods_height_limit_cm, product, pallet>>

PackNext == Pack

PackSpec == PackInit /\ [][PackNext]_vars

(* The Orientation Selector called on its own *)

OrientInit ==
    /\ pc = "call"
    /\ call = "_best_orientation"
    /\ data = None
    /\ layers = None
    /\ goods_height_limit_cm = None
    /\ product \in ProductSpecs
    /\ pallet \in PalletSpecs
    /\ result = Pending

Orient ==
    /\ pc = "call"
    /\ call = "_best_orientation"
    /\ result' = BestOrientation(product, pallet)
    /\ pc' = "done"
    /\ UNCHANGED <<call, data, layers, goods_height_limit_cm, product, pallet>>

OrientNext == Orient

OrientSpec == OrientInit /\ [][OrientNext]_vars

Returned == pc = "done" /\ result.kind = "ok"
Raised == pc = "done" /\ result.kind = "raise"

---------------------------------------------------------------------------
(* Properties of the Remainder Packer, checked under PackSpec *)

PackReturned == call = "_pack_layers" /\ Returned

\* The layers of the groupings, in order.
RECURSIVE Flatten(_)
Flatten(groups) ==
    IF groups = <<>> THEN <<>> ELSE Head(groups) \o Flatten(Tail(groups))

\* The layers of a list that a function f from positions to bins puts in bin b.
RECURSIVE InBin(_, _, _, _)
InBin(layer_list, f, b, i) ==
    IF i > Len(layer_list) THEN <<>>
    ELSE (IF f[i] = b THEN <<layer_list[i]>> ELSE <<>>)
         \o InBin(layer_list, f, b, i + 1)

\* Whether the layers can be put on k pallets, each within the limit.
FitsOn(layer_list, k, limit) ==
    \E f \in [DOMAIN layer_list -> 1..k] :
        \A b \in 1..k : StackHeight(InBin(layer_list, f, b, 1), 0) <= limit

(* C1: whenever the Remainder Packer returns, every grouping it returns is   *)
(* non-empty and the heights of its layers, summed the way the program sums  *)
(* a grouping (from 0.0, layer by layer), do not exceed the goods height     *)
(* limit.                                                                    *)
PackedWithinLimit ==
    PackReturned =>
        \A k \in DOMAIN result.value :
            /\ result.value[k] # <<>>
            /\ StackHeight(result.value[k], 0) <= goods_height_limit_cm

\* C1's case: the packer returned several groupings, one of several layers.
PackedSeveral ==
    /\ PackReturned
    /\ Len(result.value) >= 2
    /\ \E k \in DOMAIN result.value : Len(result.value[k]) >= 2

(* C4, as claimed: the packer returns the minimum number of groupings: the   *)
(* layers cannot be put on fewer pallets, each within the limit.             *)
PackerIsMinimal ==
    PackReturned =>
        \A k \in 0..(Len(result.value) - 1) :
            ~FitsOn(layers, k, goods_height_limit_cm)

(* C4, amended: the packer is greedy, not minimal; what it guarantees is     *)
(* that no two consecutive groupings would fit on one pallet: the heights of *)
(* their layers, summed in packing order, exceed the limit.                  *)
NoTwoGroupingsMerge ==
    PackReturned =>
        \A k \in 1..(Len(result.value) - 1) :
            StackHeight(result.value[k] \o result.value[k + 1], 0)
                > goods_height_limit_cm

\* C4's case: three groupings where two pallets would do.
PackedThreeWhereTwoFit ==
    /\ PackReturned
    /\ Len(result.value) = 3
    /\ FitsOn(layers, 2, goods_height_limit_cm)

(* C9: the packer's output is the next-fit partition of the stable           *)
(* height-descending ordering of its input: the groupings, concatenated,     *)
(* hold the input layers sorted by height descending, layers of equal height *)
(* in their input order; inside a grouping every layer after the first fits  *)
(* on top of the layers before it; and the first layer of every further      *)
(* grouping does not fit on top of the grouping before it.                   *)
NextFitPartition ==
    PackReturned =>
        /\ Len(Flatten(result.value)) = Len(layers)
        /\ \A j \in 1..(Len(Flatten(result.value)) - 1) :
               Flatten(result.value)[j].layer_height_cm
                   >= Flatten(result.value)[j + 1].layer_height_cm
        /\ \A h \in {layers[i].layer_height_cm : i \in DOMAIN layers} :
               LET OfHeight(layer) == layer.layer_height_cm = h
               IN  SelectSeq(Flatten(result.value), OfHeight)
                       = SelectSeq(layers, OfHeight)
        /\ \A k \in DOMAIN result.value :
               /\ result.value[k] # <<>>
               /\ \A i \in 2..Len(result.value[k]) :
                      FAdd(StackHeight(SubSeq(result.value[k], 1, i - 1), 0),
                           result.value[k][i].layer_height_cm)
                          <= goods_height_limit_cm
        /\ \A k \in 1..(Len(result.value) - 1) :
               FAdd(StackHeight(result.value[k], 0),
                    result.value[k + 1][1].layer_height_cm)
                   > goods_height_limit_cm

\* C9's case: two different layers of one height, the later-sorted kind
\* first in the input, packed into several groupings.
PackedEqualHeights ==
    /\ PackReturned
    /\ Len(result.value) >= 2
    /\ \E i, j \in DOMAIN layers :
           /\ i < j
           /\ layers[i].layer_height_cm = layers[j].layer_height_cm
           /\ layers[i].product_name = "B"
           /\ layers[j].product_name = "A"

---------------------------------------------------------------------------
(* Properties of calculate_palletization, checked under Spec *)

CalcReturned == call = "calculate_palletization" /\ Returned
CalcRaised == call = "calculate_palletization" /\ Raised

RECURSIVE SeqSum(_)
SeqSum(numbers) ==
    IF numbers = <<>> THEN 0 ELSE Head(numbers) + SeqSum(Tail(numbers))

\* The cartons of one product name on one pallet of a detail.
CartonsOn(detail, name) ==
    IF name \in DOMAIN detail.cartons_by_product
    THEN detail.cartons_by_product[name] ELSE 0

\* The cartons of a product name on all the pallets of the details.
CartonsShipped(details, name) ==
    SeqSum([j \in DOMAIN details |-> details[j].count * CartonsOn(details[j], name)])

\* The cartons the plans of a product name require.
CartonsOrdered(plans, name) ==
    SeqSum([k \in DOMAIN plans |->
               IF plans[k].product.name = name
               THEN CartonsRequired(plans[k].product) ELSE 0])

ProductNames(plans) == {plans[k].product.name : k \in DOMAIN plans}

\* The layer fragments of all the plans, pooled in product order.
RECURSIVE PooledLayers(_)
PooledLayers(plans) ==
    IF plans = <<>> THEN <<>>
    ELSE BuildLayers(Head(plans)) \o PooledLayers(Tail(plans))

\* The goods height limit of an input the engine accepts.
LimitFor(input) ==
    LimitOf(LoadPallet(input.pallet),
            ResolveContainerHeight(input.container_height)).value

\* The number of remainder pallets of a result: with mixing, the groupings
\* the packer returns for the pooled fragments; without, the products with
\* cartons left over.
RemainderPallets(input, plans) ==
    IF input.allow_mixed_remainders
    THEN Len(PackLayers(PooledLayers(plans), LimitFor(input)).value)
    ELSE Cardinality({k \in DOMAIN plans : plans[k].remainder_cartons > 0})

(* C2: in every product plan of a result, full_pallets * cartons_per_pallet  *)
(* + remainder_cartons is the product's cartons_required, with               *)
(* cartons_per_pallet > 0 and 0 <= remainder_cartons < cartons_per_pallet.   *)
PlanAccountsForCartons ==
    CalcReturned =>
        \A k \in DOMAIN result.value.product_plans :
            LET plan == result.value.product_plans[k]
            IN  /\ plan.full_pallets * plan.cartons_per_pallet
                       + plan.remainder_cartons
                   = CartonsRequired(plan.product)
                /\ plan.cartons_per_pallet > 0
                /\ 0 <= plan.remainder_cartons
                /\ plan.remainder_cartons < plan.cartons_per_pallet

\* C2's case: a plan with full pallets and cartons left over.
PlanWithFullAndRemainder ==
    /\ CalcReturned
    /\ \E k \in DOMAIN result.value.product_plans :
           /\ result.value.product_plans[k].full_pallets >= 1
           /\ result.value.product_plans[k].remainder_cartons > 0

(* C3: total_pallets is the sum of count over the pallet details, which is   *)
(* the sum of full_pallets over the products plus R: without mixing, R is    *)
(* the number of products with cartons left over, each with one pallet       *)
(* labelled "<name> remainder pallet" of count 1; with mixing, R is the      *)
(* number of groupings the packer returns.  The example of the tests (80 and *)
(* 58 cartons, one full pallet each, remainders 8 and 22) gives 3 pallets    *)
(* with mixing and 4 without.                                                *)
TotalPalletsAccounted ==
    /\ CalcReturned =>
           LET plans == result.value.product_plans
               details == result.value.pallets
           IN  /\ result.value.total_pallets
                      = SeqSum([j \in DOMAIN details |-> details[j].count])
               /\ result.value.total_pallets
                      = SeqSum([k \in DOMAIN plans |-> plans[k].full_pallets])
                        + RemainderPallets(data, plans)
               /\ ~data.allow_mixed_remainders =>
                      /\ \A k \in DOMAIN plans :
                             plans[k].remainder_cartons > 0 =>
                                 \E j \in DOMAIN details :
                                     /\ details[j].label
                                            = plans[k].product.name \o " remainder pallet"
                                     /\ details[j].count = 1
                      /\ Cardinality({j \in DOMAIN details :
                             \E k \in DOMAIN plans :
                                 details[j].label
                                     = plans[k].product.name \o " remainder pallet"})
                             <= Cardinality({k \in DOMAIN plans :
                                    plans[k].remainder_cartons > 0})
    /\ \A mixed \in BOOLEAN :
           (pc = "done" /\ call = "calculate_palletization"
                /\ data = ExampleInput(mixed)) =>
               /\ result.kind = "ok"
               /\ result.value.total_cartons = 80 + 58
               /\ result.value.product_plans[1].full_pallets = 1
               /\ result.value.product_plans[1].remainder_cartons = 8
               /\ result.value.product_plans[2].full_pallets = 1
               /\ result.value.product_plans[2].remainder_cartons = 22
               /\ result.value.total_pallets = IF mixed THEN 3 ELSE 4

\* C3's case: the example of the tests, with mixing, gave three pallets.
ExampleMixedGivesThree ==
    /\ CalcReturned
    /\ data = ExampleInput(TRUE)
    /\ result.value.total_pallets = 3

(* C5, as claimed: calculate_palletization returns a result or fails with    *)
(* the validation error, ValueError; no other exception escapes it.          *)
OnlyValueErrorEscapes ==
    CalcRaised => result.error = "ValueError"

(* C6, as claimed: every pallet detail of a result has a count of at least   *)
(* one.                                                                      *)
EveryCountAtLeastOne ==
    CalcReturned =>
        \A j \in DOMAIN result.value.pallets : result.value.pallets[j].count >= 1

(* C8: no carton is lost or duplicated: for each product name, the cartons   *)
(* of that name on the pallets (count times cartons_by_product[name], summed *)
(* over the details) are the cartons the products of that name require, and  *)
(* summed over the names they are total_cartons.                             *)
CartonsConserved ==
    CalcReturned =>
        /\ \A name \in ProductNames(result.value.product_plans) :
               CartonsShipped(result.value.pallets, name)
                   = CartonsOrdered(result.value.product_plans, name)
        /\ \A j \in DOMAIN result.value.pallets :
               DOMAIN result.value.pallets[j].cartons_by_product
                   \subseteq ProductNames(result.value.product_plans)
        /\ LET Shipped[names \in SUBSET ProductNames(result.value.product_plans)] ==
                   IF names = {} THEN 0
                   ELSE LET n == CHOOSE n \in names : TRUE
                        IN  CartonsShipped(result.value.pallets, n)
                            + Shipped[names \ {n}]
           IN  Shipped[ProductNames(result.value.product_plans)]
                   = result.value.total_cartons

\* C8's case: with mixing, a pallet that carries cartons of two products.
MixedPalletOfTwoProducts ==
    /\ CalcReturned
    /\ data.allow_mixed_remainders
    /\ \E j \in DOMAIN result.value.pallets :
           Cardinality(DOMAIN result.value.pallets[j].cartons_by_product) >= 2

(* C10, as claimed: for the same products, pallet and container,             *)
(* total_pallets with mixing never exceeds total_pallets without: the packer *)
(* never returns more groupings than there are products with cartons left    *)
(* over.                                                                     *)
MixingNeverWorse ==
    (CalcReturned /\ data.allow_mixed_remainders) =>
        /\ CalculatePalletization(
               [data EXCEPT !.allow_mixed_remainders = FALSE]).kind = "ok"
        /\ result.value.total_pallets
               <= CalculatePalletization(
                      [data EXCEPT !.allow_mixed_remainders = FALSE]
                  ).value.total_pallets
        /\ RemainderPallets(data, result.value.product_plans)
               <= Cardinality({k \in DOMAIN result.value.product_plans :
                      result.value.product_plans[k].remainder_cartons > 0})

\* The cartons of the layers of a grouping.
RECURSIVE CartonsIn(_)
CartonsIn(layer_stack) ==
    IF layer_stack = <<>> THEN 0
    ELSE Head(layer_stack).cartons + CartonsIn(Tail(layer_stack))

\* The packer's outcome for the layers of one plan alone.
PackedAlone(plan) == PackLayers(BuildLayers(plan), LimitFor(data))

(* C11, as claimed: for every product plan of a result with                  *)
(* remainder_cartons > 0, the packer given the layers of that plan alone     *)
(* returns exactly one grouping, which holds remainder_cartons cartons and   *)
(* whose summed height is ceil(remainder_cartons / cartons_per_layer) times  *)
(* the carton height, the height of the dedicated remainder pallet.          *)
RemainderPackedAloneIsDedicated ==
    CalcReturned =>
        \A k \in DOMAIN result.value.product_plans :
            result.value.product_plans[k].remainder_cartons > 0 =>
                /\ PackedAlone(result.value.product_plans[k]).kind = "ok"
                /\ Len(PackedAlone(result.value.product_plans[k]).value) = 1
                /\ CartonsIn(PackedAlone(result.value.product_plans[k]).value[1])
                       = result.value.product_plans[k].remainder_cartons
                /\ StackHeight(PackedAlone(result.value.product_plans[k]).value[1], 0)
                       = RemainderGoodsHeight(result.value.product_plans[k])

(* C12: within calculate_palletization the packer's defensive failure is     *)
(* unreachable: the calculation never ends with the packer's "Layer height   *)
(* exceeds available stacking limit." error, and with mixing every layer of  *)
(* the planned products, the layers handed to the packer, is no higher than  *)
(* the goods height limit; a product whose carton is higher was refused      *)
(* while it was planned.                                                     *)
PackerFailureUnreachable ==
    /\ (pc = "done" /\ call = "calculate_palletization") =>
           ~(/\ result.kind = "raise"
             /\ result.message = "Layer height exceeds available stacking limit.")
    /\ (CalcReturned /\ data.allow_mixed_remainders) =>
           \A i \in DOMAIN PooledLayers(result.value.product_plans) :
               PooledLayers(result.value.product_plans)[i].layer_height_cm
                   <= LimitFor(data)

\* C12's case: with mixing, a product planned after one whose carton is within
\* the limit has a carton higher than the limit, and the calculation was
\* refused for its stacking height.
TallCartonRefused ==
    /\ CalcRaised
    /\ data.allow_mixed_remainders
    /\ result.error = "ValueError"
    /\ result.message = "exceeds the allowable stacking height"
    /\ Len(data.products) >= 2
    /\ \E k \in 2..Len(data.products) :
           /\ Len(data.products[k].carton_dimensions_cm) = 3
           /\ IsNum(data.products[k].carton_dimensions_cm[3])
           /\ data.products[k].carton_dimensions_cm[3].num > LimitFor(data)
           /\ LoadProduct(data.products[1]).kind = "ok"
           /\ LoadProduct(data.products[1]).value.carton_height_cm > 0
           /\ LoadProduct(data.products[1]).value.carton_height_cm <= LimitFor(data)

---------------------------------------------------------------------------
(* Properties of the Orientation Selector, checked under OrientSpec *)

OrientDone == call = "_best_orientation" /\ pc = "done"

\* The two axis-swapped layouts of the carton of the call.
AsGiven ==
    OrientationPlan(FloorDiv(pallet.length_cm, product.carton_length_cm),
                    FloorDiv(pallet.width_cm, product.carton_width_cm),
                    product.carton_length_cm, product.carton_width_cm)
Turned ==
    OrientationPlan(FloorDiv(pallet.length_cm, product.carton_width_cm),
                    FloorDiv(pallet.width_cm, product.carton_length_cm),
                    product.carton_width_cm, product.carton_length_cm)

\* Layout a is no worse than layout b: more cartons per layer, then more
\* along the length, then more along the width.
NoWorse(a, b) ==
    \/ a.cartons_per_layer > b.cartons_per_layer
    \/ /\ a.cartons_per_layer = b.cartons_per_layer
       /\ \/ a.cartons_along_length > b.cartons_along_length
          \/ /\ a.cartons_along_length = b.cartons_along_length
             /\ a.cartons_along_width >= b.cartons_along_width

(* C7: when at least one of the two axis-swapped layouts has a positive      *)
(* cartons_per_layer, the Orientation Selector returns one of them with a    *)
(* positive cartons_per_layer that no other such layout beats: the larger    *)
(* cartons_per_layer, on a tie the larger cartons_along_length, then the     *)
(* larger cartons_along_width.                                               *)
BestLayoutChosen ==
    (/\ OrientDone
     /\ product.carton_length_cm # 0
     /\ product.carton_width_cm # 0
     /\ AsGiven.cartons_per_layer > 0 \/ Turned.cartons_per_layer > 0) =>
        /\ result.kind = "ok"
        /\ result.value \in {AsGiven, Turned}
        /\ result.value.cartons_per_layer > 0
        /\ \A other \in {AsGiven, Turned} :
               other.cartons_per_layer > 0 => NoWorse(result.value, other)

\* C7's case: both layouts hold the same number of cartons per layer, and the
\* turned one, with more cartons along the length, was returned.
TieTurnedChosen ==
    /\ OrientDone
    /\ result.kind = "ok"
    /\ AsGiven.cartons_per_layer = Turned.cartons_per_layer
    /\ AsGiven.cartons_along_length < Turned.cartons_along_length
    /\ result.value = Turned

=============================================================================
